---- MODULE Spec2Model ----
(***************************************************************************)
(* Freezer Batch Cocktail Calculator (src/src/lib/calculator.ts).          *)
(*                                                                         *)
(* Numbers.  The TypeScript code computes in IEEE doubles; the model       *)
(* computes the same expressions in exact fixed-point integers:            *)
(*   - an ingredient's amount is held in quarters of its unit (1 oz = 4),  *)
(*   - an ABV is held in tenths of a percent (40% = 400, 16.5% = 165),     *)
(*   - a volume in ml before rounding is held in 1/8000 ml                 *)
(*     (29.5735 = 59147/2000, and amounts are quarters),                   *)
(*   - a volume in oz after mlToOz is held in hundredths of an ounce,      *)
(*   - Math.round(p/q) is floor(p/q + 1/2) = (2p + q) \div 2q.             *)
(* The enumerated inputs are chosen so that no intermediate value is a     *)
(* rounding tie on which a double would differ from the exact value.       *)
(***************************************************************************)
EXTENDS Integers, Sequences, FiniteSets, TLC

VARIABLES
    recipe,          \* the caller-owned RecipeIngredient[] passed to the freeform engine
    given,           \* the value `recipe` had when the last call was entered
    bottleSizeMl,    \* bottleSizeMl argument of the last call
    dilutionPercent, \* dilutionPercent argument of the last call
    recipeId,        \* recipeId argument of calculateMilkStreetBatch
    result,          \* what the last call returned (NoResult before any call)
    abv,             \* the argument of getFreezeStatus, in tenths of a percent
    freeze,          \* what getFreezeStatus(abv) returned (NoResult before the call)
    amountIn,        \* amount argument of convertToMl, in quarters of the unit
    unitIn,          \* unit argument of convertToMl
    ozIn,            \* the ounces converted to ml and back, in thousandths of an ounce
    nameIn           \* name argument of suggestABV, a sequence of characters

\* the arguments of the utility functions
utilityArgs == <<amountIn, unitIn, ozIn, nameIn>>

vars == <<recipe, given, recipeId, bottleSizeMl, dilutionPercent, result, abv, freeze,
          amountIn, unitIn, ozIn, nameIn>>

----------------------------------------------------------------------------
(* CONSTANTS of calculator.ts *)

\* ML_PER_OZ = 29.5735 = ML_PER_OZ_NUM / ML_PER_OZ_DEN
ML_PER_OZ_NUM == 59147
ML_PER_OZ_DEN == 2000
STANDARD_BOTTLE_ML == 750
SERVING_SIZE_ML == 90
FREEZE_THRESHOLD == 15
SLUSHY_THRESHOLD == 22

\* UNIT_TO_ML, each factor times ML_PER_OZ_DEN
UNIT_TO_ML ==
    [ml |-> 2000, oz |-> 59147, cl |-> 20000, dash |-> 1800,
     barspoon |-> 10000, tsp |-> 10000, tbsp |-> 30000]

----------------------------------------------------------------------------
(* UTILITY FUNCTIONS *)

\* names every object literal inherits from Object.prototype
ObjectPrototypeKeys ==
    {"constructor", "toString", "toLocaleString", "valueOf", "hasOwnProperty",
     "isPrototypeOf", "propertyIsEnumerable", "__proto__"}

\* the number NaN
NaN == [nan |-> TRUE]

\* Math.round(n / d) for d > 0: floor(n/d + 0.5)
MathRound(n, d) == (2 * n + d) \div (2 * d)

\* the ounces cut to two decimals instead of rounded
mlToOzTruncated(ml) == (ml * 100 * ML_PER_OZ_DEN) \div ML_PER_OZ_NUM

\* mlToOz(ml) = Math.round((ml / ML_PER_OZ) * 100) / 100, in hundredths of an ounce
mlToOz(ml) == MathRound(ml * 100 * ML_PER_OZ_DEN, ML_PER_OZ_NUM)

\* ozToMl(oz) = Math.round(oz * ML_PER_OZ); oz = n/d ounces, result in whole ml
ozToMl(n, d) == MathRound(n * ML_PER_OZ_NUM, d * ML_PER_OZ_DEN)

\* a member inherited from Object.prototype: a function, or Object.prototype itself
InheritedMember == [inherited |-> "Object.prototype"]

\* UNIT_TO_ML[unit] || 1, a property read on an object literal: an own key gives its
\* number, a name found on the prototype chain gives that member (truthy, so the
\* fallback is not taken), any other name gives undefined and then the fallback 1
unitFactor(unit) ==
    IF unit \in DOMAIN UNIT_TO_ML THEN [factor |-> UNIT_TO_ML[unit]]
    ELSE IF unit \in ObjectPrototypeKeys THEN InheritedMember
    ELSE [factor |-> ML_PER_OZ_DEN]

\* convertToMl(amount, unit) = amount * (UNIT_TO_ML[unit] || 1);
\* amount in quarters, result in 1/8000 ml; a number times a function or an object
\* is NaN
convertToMl(amount, unit) ==
    IF unitFactor(unit) = InheritedMember THEN NaN
    ELSE amount * unitFactor(unit).factor

\* the bands closed on their lower side: <= in place of <
getFreezeStatusInclusive(n, d) ==
    IF n <= FREEZE_THRESHOLD * 10 * d
    THEN [status |-> "freeze",
          message |-> <<"will freeze solid. Add more spirits or reduce mixers.", MathRound(n, d)>>]
    ELSE IF n <= SLUSHY_THRESHOLD * 10 * d
    THEN [status |-> "slushy",
          message |-> <<"will be thick/slushy. Still drinkable but not ideal.", MathRound(n, d)>>]
    ELSE [status |-> "safe",
          message |-> <<"will stay perfectly pourable.", MathRound(n, d)>>]

\* getFreezeStatus(abv) for abv = n / (10 * d) percent, d > 0.
\* message: the template chosen and the interpolated abv.toFixed(1), in tenths
getFreezeStatus(n, d) ==
    IF n < FREEZE_THRESHOLD * 10 * d
    THEN [status |-> "freeze",
          message |-> <<"will freeze solid. Add more spirits or reduce mixers.", MathRound(n, d)>>]
    ELSE IF n < SLUSHY_THRESHOLD * 10 * d
    THEN [status |-> "slushy",
          message |-> <<"will be thick/slushy. Still drinkable but not ideal.", MathRound(n, d)>>]
    ELSE [status |-> "safe",
          message |-> <<"will stay perfectly pourable.", MathRound(n, d)>>]

----------------------------------------------------------------------------
(* MAIN CALCULATION FUNCTION: calculateBatchFromBottle *)

NoResult == [called |-> FALSE]
TypeError == [threw |-> "TypeError"]

emptyResult ==
    [pourOffMl |-> 0, pourOffOz |-> 0, ingredientsToAdd |-> <<>>,
     waterToAddMl |-> 0, waterToAddOz |-> 0, finalAbv |-> 0,
     totalVolumeMl |-> 0, totalVolumeOz |-> 0, servings |-> 0,
     freezeStatus |-> "freeze", freezeMessage |-> <<"Add ingredients to calculate">>,
     baseSpiritName |-> "", baseSpiritInBottleMl |-> 0, baseSpiritInBottleOz |-> 0]

\* Array.prototype.find over indices: the first index whose element is flagged, 0 if none
findBaseSpirit(list) ==
    IF \E i \in 1..Len(list) : list[i].isBaseSpirit
    THEN CHOOSE i \in 1..Len(list) :
            /\ list[i].isBaseSpirit
            /\ \A j \in 1..(i - 1) : ~list[j].isBaseSpirit
    ELSE 0

\* the comparator reversed: (a, b) => a.abv - b.abv, an ascending sort
RECURSIVE insertByAbvAscending(_, _, _)
insertByAbvAscending(list, idx, i) ==
    IF idx = <<>> THEN <<i>>
    ELSE IF list[i].abv - list[Head(idx)].abv >= 0
         THEN <<Head(idx)>> \o insertByAbvAscending(list, Tail(idx), i)
         ELSE <<i>> \o idx

\* insertion of index i into idx, a sequence of indices held in descending abv:
\* i goes after every index whose abv is >= its own (Array.prototype.sort is stable)
RECURSIVE insertByAbv(_, _, _)
insertByAbv(list, idx, i) ==
    IF idx = <<>> THEN <<i>>
    ELSE IF list[Head(idx)].abv - list[i].abv >= 0
         THEN <<Head(idx)>> \o insertByAbv(list, Tail(idx), i)
         ELSE <<i>> \o idx

\* [...recipe].sort((a, b) => b.abv - a.abv), as the sequence of indices into recipe
\* (the copy is shallow: sorted[k] is the object recipe[sortedByAbv[k]])
RECURSIVE sortedByAbv(_, _)
sortedByAbv(list, n) ==
    IF n = 0 THEN <<>> ELSE insertByAbv(list, sortedByAbv(list, n - 1), n)

\* the flag written before the abv > 0 test instead of after it
markBaseSpiritUnchecked(list) ==
    IF findBaseSpirit(list) # 0 THEN list
    ELSE LET sorted == sortedByAbv(list, Len(list))
         IN  IF Len(sorted) > 0
             THEN [list EXCEPT ![sorted[1]].isBaseSpirit = TRUE]
             ELSE list

\* lines 156-165: the recipe as the call leaves it (the flag is written on the
\* caller's own object when a base spirit is auto-selected)
markBaseSpirit(list) ==
    IF findBaseSpirit(list) # 0 THEN list
    ELSE LET sorted == sortedByAbv(list, Len(list))
         IN  IF Len(sorted) > 0 /\ list[sorted[1]].abv > 0
             THEN [list EXCEPT ![sorted[1]].isBaseSpirit = TRUE]
             ELSE list

\* lines 157-164: no flagged ingredient and none to promote
noBaseSpirit(list) ==
    /\ findBaseSpirit(list) = 0
    /\ LET sorted == sortedByAbv(list, Len(list))
       IN  ~(Len(sorted) > 0 /\ list[sorted[1]].abv > 0)

\* Step 1/2: recipeMl of every ingredient and their sum
recipeMl(list) == [i \in 1..Len(list) |-> convertToMl(list[i].amount, list[i].unit)]

RECURSIVE sumTo(_, _)
sumTo(f, n) == IF n = 0 THEN 0 ELSE sumTo(f, n - 1) + f[n]

totalRecipeMl(list) == sumTo(recipeMl(list), Len(list))

\* Math.floor in place of Math.round
waterToAddMlFloor(B, d) == (B * d) \div 100

\* the dilution taken as the share kept for the ingredients: (100 - dilutionPercent)
waterToAddMlComplement(B, d) == MathRound(B * (100 - d), 100)

\* Step 3: Math.round(bottleSizeMl * (dilutionPercent / 100))
waterToAddMl(B, d) == MathRound(B * d, 100)

\* the water added to the bottle volume instead of taken from it:
\* volumeForIngredients = bottleSizeMl + waterToAddMl
scaledMlWaterAdded(list, B, d) ==
    LET ml == recipeMl(list)
        total == sumTo(ml, Len(list))
        volumeForIngredients == B + waterToAddMl(B, d)
    IN  [i \in 1..Len(list) |-> MathRound(ml[i] * volumeForIngredients, total)]

\* Step 5: scaledMl = Math.round(recipeMl * scaleFactor),
\* scaleFactor = (bottleSizeMl - waterToAddMl) / totalRecipeMl
scaledMl(list, B, d) ==
    LET ml == recipeMl(list)
        total == sumTo(ml, Len(list))
        volumeForIngredients == B - waterToAddMl(B, d)
    IN  [i \in 1..Len(list) |-> MathRound(ml[i] * volumeForIngredients, total)]

\* Step 8: scaledIngredients.filter(ing => !ing.isBaseSpirit).map(...)
RECURSIVE ingredientsToAdd(_, _, _)
ingredientsToAdd(list, scaled, n) ==
    IF n = 0 THEN <<>>
    ELSE ingredientsToAdd(list, scaled, n - 1) \o
         (IF list[n].isBaseSpirit THEN <<>>
          ELSE << [name |-> list[n].name, amountMl |-> scaled[n],
                   amountOz |-> mlToOz(scaled[n]), abv |-> list[n].abv] >>)

\* Step 9: sum of scaledMl * (abv / 100), in 1/1000 ml (abv is in tenths)
totalAlcoholMl(list, scaled) ==
    sumTo([i \in 1..Len(list) |-> scaled[i] * list[i].abv], Len(list))

\* the alcohol divided by the volume of the scaled ingredients instead of the bottle
finalAbvRatioOfIngredients(list, scaled, B) ==
    <<totalAlcoholMl(list, scaled), sumTo(scaled, Len(list))>>

\* line 218: finalAbv = (totalAlcoholMl / bottleSizeMl) * 100, as <<numerator, denominator>>
\* of the ABV in tenths of a percent
finalAbvRatio(list, scaled, B) == <<totalAlcoholMl(list, scaled), B>>

\* Steps 3-11 and the returned object, on the recipe as flagged by lines 156-165
batchOf(list, B, d) ==
    LET scaled  == scaledMl(list, B, d)
        base    == findBaseSpirit(list)
        ratio   == finalAbvRatio(list, scaled, B)
        fs      == getFreezeStatus(ratio[1], ratio[2])
    IN  IF base = 0 THEN TypeError
        ELSE [pourOffMl |-> B - scaled[base],
              pourOffOz |-> mlToOz(B - scaled[base]),
              ingredientsToAdd |-> ingredientsToAdd(list, scaled, Len(list)),
              waterToAddMl |-> waterToAddMl(B, d),
              waterToAddOz |-> mlToOz(waterToAddMl(B, d)),
              finalAbv |-> MathRound(ratio[1], ratio[2]),
              totalVolumeMl |-> B,
              totalVolumeOz |-> mlToOz(B),
              servings |-> B \div SERVING_SIZE_ML,
              freezeStatus |-> fs.status,
              freezeMessage |-> fs.message,
              baseSpiritName |-> list[base].name,
              baseSpiritInBottleMl |-> scaled[base],
              baseSpiritInBottleOz |-> mlToOz(scaled[base])]

\* the totalRecipeMl === 0 guard of lines 176-178 left out: the volumes become NaN
\* (left at 0 here) and the bottle-derived fields are those of a computed batch
calculateBatchFromBottleUnguarded(list, B, d) ==
    IF Len(list) = 0 THEN emptyResult
    ELSE IF noBaseSpirit(list) THEN emptyResult
    ELSE IF totalRecipeMl(list) = 0
         THEN [emptyResult EXCEPT !.totalVolumeMl = B, !.totalVolumeOz = mlToOz(B),
                                  !.servings = B \div SERVING_SIZE_ML,
                                  !.baseSpiritName = list[findBaseSpirit(markBaseSpirit(list))].name]
    ELSE batchOf(markBaseSpirit(list), B, d)

\* the value calculateBatchFromBottle(list, B, d) returns
calculateBatchFromBottle(list, B, d) ==
    IF Len(list) = 0 THEN emptyResult
    ELSE IF noBaseSpirit(list) THEN emptyResult
    ELSE IF totalRecipeMl(list) = 0 THEN emptyResult
    ELSE batchOf(markBaseSpirit(list), B, d)

\* the sorted copy written back into the caller's array: the list is left flagged and
\* sorted by descending abv
recipeAfterCallSorted(list) ==
    IF Len(list) = 0 THEN list
    ELSE LET marked == markBaseSpirit(list)
             sorted == sortedByAbv(list, Len(list))
         IN  [k \in 1..Len(list) |-> marked[sorted[k]]]

\* the caller's list after calculateBatchFromBottle(list, B, d)
recipeAfterCall(list) ==
    IF Len(list) = 0 THEN list ELSE markBaseSpirit(list)

----------------------------------------------------------------------------
(* MILK STREET EXACT BATCH RECIPES: calculateMilkStreetBatch *)

\* the reference table; oz in hundredths of an ounce, abv in tenths of a percent
MILK_STREET_BATCHES ==
    "margarita" :>
        [baseSpirit |-> "Tequila Blanco", baseSpiritAbv |-> 400, pourOffOz |-> 1000,
         addBack |-> <<
                [name |-> "Fresh Lime Juice", oz |-> 500, abv |-> 0],
                [name |-> "Orange Liqueur (Cointreau)", oz |-> 400, abv |-> 400],
                [name |-> "Agave Syrup", oz |-> 150, abv |-> 0] >>,
         waterOz |-> 0]
    @@ "negroni" :>
        [baseSpirit |-> "Gin", baseSpiritAbv |-> 400, pourOffOz |-> 1600,
         addBack |-> <<
                [name |-> "Sweet Vermouth", oz |-> 700, abv |-> 160],
                [name |-> "Campari", oz |-> 700, abv |-> 250] >>,
         waterOz |-> 0]
    @@ "manhattan" :>
        [baseSpirit |-> "Rye Whiskey", baseSpiritAbv |-> 450, pourOffOz |-> 450,
         addBack |-> <<
                [name |-> "Sweet Vermouth", oz |-> 400, abv |-> 160],
                [name |-> "Maraschino Cherry Syrup", oz |-> 50, abv |-> 0] >>,
         waterOz |-> 0]
    @@ "old-fashioned" :>
        [baseSpirit |-> "Bourbon", baseSpiritAbv |-> 450, pourOffOz |-> 133,
         addBack |-> <<
                [name |-> "Agave/Simple Syrup", oz |-> 100, abv |-> 0] >>,
         waterOz |-> 0]
    @@ "daiquiri" :>
        [baseSpirit |-> "White Rum", baseSpiritAbv |-> 400, pourOffOz |-> 700,
         addBack |-> <<
                [name |-> "Fresh Lime Juice", oz |-> 350, abv |-> 0],
                [name |-> "Agave/Simple Syrup", oz |-> 175, abv |-> 0] >>,
         waterOz |-> 200]
    @@ "dirty-martini" :>
        [baseSpirit |-> "Vodka", baseSpiritAbv |-> 400, pourOffOz |-> 600,
         addBack |-> <<
                [name |-> "Dry Vermouth", oz |-> 400, abv |-> 180],
                [name |-> "Green Olive Brine", oz |-> 150, abv |-> 0] >>,
         waterOz |-> 250]
    @@ "cosmopolitan" :>
        [baseSpirit |-> "Vodka", baseSpiritAbv |-> 400, pourOffOz |-> 900,
         addBack |-> <<
                [name |-> "Orange Liqueur (Cointreau)", oz |-> 300, abv |-> 400],
                [name |-> "Agave/Simple Syrup", oz |-> 150, abv |-> 0],
                [name |-> "Cranberry Juice Concentrate", oz |-> 100, abv |-> 0],
                [name |-> "Fresh Lime Juice", oz |-> 25, abv |-> 0] >>,
         waterOz |-> 200]
    @@ "espresso-martini" :>
        [baseSpirit |-> "Vodka", baseSpiritAbv |-> 400, pourOffOz |-> 1000,
         addBack |-> <<
                [name |-> "Kahlúa", oz |-> 900, abv |-> 200] >>,
         waterOz |-> 100]
    @@ "vesper" :>
        [baseSpirit |-> "Gin", baseSpiritAbv |-> 400, pourOffOz |-> 1000,
         addBack |-> <<
                [name |-> "Vodka", oz |-> 250, abv |-> 400],
                [name |-> "Cocchi Americano", oz |-> 500, abv |-> 165] >>,
         waterOz |-> 0]
    @@ "mint-julep" :>
        [baseSpirit |-> "Bourbon", baseSpiritAbv |-> 450, pourOffOz |-> 325,
         addBack |-> <<
                [name |-> "Mint Syrup", oz |-> 300, abv |-> 0] >>,
         waterOz |-> 0]
    @@ "paper-plane" :>
        [baseSpirit |-> "Bourbon", baseSpiritAbv |-> 450, pourOffOz |-> 1900,
         addBack |-> <<
                [name |-> "Aperol", oz |-> 625, abv |-> 110],
                [name |-> "Amaro Nonino", oz |-> 625, abv |-> 350],
                [name |-> "Fresh Lemon Juice", oz |-> 625, abv |-> 0] >>,
         waterOz |-> 0]
    @@ "moscow-mule" :>
        [baseSpirit |-> "Vodka", baseSpiritAbv |-> 400, pourOffOz |-> 650,
         addBack |-> <<
                [name |-> "Fresh Lime Juice", oz |-> 325, abv |-> 0],
                [name |-> "Ginger Syrup", oz |-> 325, abv |-> 0] >>,
         waterOz |-> 0]
    @@ "boulevardier" :>
        [baseSpirit |-> "Bourbon", baseSpiritAbv |-> 450, pourOffOz |-> 1400,
         addBack |-> <<
                [name |-> "Sweet Vermouth", oz |-> 600, abv |-> 160],
                [name |-> "Campari", oz |-> 600, abv |-> 250] >>,
         waterOz |-> 0]

Undefined == [undefined |-> TRUE]
Null == [null |-> TRUE]

\* line 485: MILK_STREET_BATCHES[recipeId], a property read on an object literal:
\* an own key gives its entry, a name found on the prototype chain gives that member
\* (a function or Object.prototype itself: truthy, with none of the entry's fields),
\* any other string gives undefined
lookupBatch(id) ==
    IF id \in DOMAIN MILK_STREET_BATCHES THEN MILK_STREET_BATCHES[id]
    ELSE IF id \in ObjectPrototypeKeys THEN InheritedMember
    ELSE Undefined

\* rounding down to the quarter ounce: Math.floor in place of Math.round
roundToQuarterDown(n, d) == 25 * (n \div (25 * d))

\* rounding to the half ounce: oz * 2 / 2 in place of oz * 4 / 4
roundToHalf(n, d) == 50 * MathRound(n, 50 * d)

\* roundToQuarter(oz) = Math.round(oz * 4) / 4 for oz = n / d hundredths of an ounce;
\* the result in hundredths of an ounce
roundToQuarter(n, d) == 25 * MathRound(n, 25 * d)

\* Math.round(oz * ML_PER_OZ) for oz in hundredths of an ounce
roundOzToMl(oz) == MathRound(oz * ML_PER_OZ_NUM, 100 * ML_PER_OZ_DEN)

\* lines 501-509: recipe.addBack.map(...), amounts scaled by bottleSizeMl / 750
scaledAddBack(addBack, B) ==
    [i \in 1..Len(addBack) |->
        LET scaledOz == roundToQuarter(addBack[i].oz * B, STANDARD_BOTTLE_ML)
        IN  [name |-> addBack[i].name, amountMl |-> roundOzToMl(scaledOz),
             amountOz |-> scaledOz, abv |-> addBack[i].abv]]

\* the alcohol of the added ingredients left out of the sum
milkStreetAlcoholMlBaseOnly(baseSpiritMl, baseSpiritAbv, added) ==
    baseSpiritMl * baseSpiritAbv

\* lines 516-519: baseSpiritMl * (baseSpiritAbv / 100) + sum of amountMl * (abv / 100),
\* in 1/1000 ml (abv is in tenths)
milkStreetAlcoholMl(baseSpiritMl, baseSpiritAbv, added) ==
    baseSpiritMl * baseSpiritAbv
        + sumTo([i \in 1..Len(added) |-> added[i].amountMl * added[i].abv], Len(added))

\* the pour-off of the 750 ml table taken as it is, whatever the bottle
scaledPourOffOzStandard(entry, B) == roundToQuarter(entry.pourOffOz, 1)

\* line 492: roundToQuarter(recipe.pourOffOz * scaleFactor), scaleFactor = B / 750
scaledPourOffOz(entry, B) == roundToQuarter(entry.pourOffOz * B, STANDARD_BOTTLE_ML)

\* lines 488-540 for an entry of the table.  For a bottle of 0 ml, line 520 divides
\* 0 by 0: finalAbv is NaN, which is neither below 15 nor below 22, so the status is
\* 'safe' and the message interpolates NaN
milkStreetBatchOf(entry, B) ==
    LET pourOffOz    == scaledPourOffOz(entry, B)
        bottleSizeOz == roundToQuarter(B * 100 * ML_PER_OZ_DEN, ML_PER_OZ_NUM)
        baseSpiritOz == bottleSizeOz - pourOffOz
        baseSpiritMl == roundOzToMl(baseSpiritOz)
        added        == scaledAddBack(entry.addBack, B)
        waterOz      == roundToQuarter(entry.waterOz * B, STANDARD_BOTTLE_ML)
        alcohol      == milkStreetAlcoholMl(baseSpiritMl, entry.baseSpiritAbv, added)
        fs           == IF B = 0
                        THEN [status |-> "safe",
                              message |-> <<"will stay perfectly pourable.", NaN>>]
                        ELSE getFreezeStatus(alcohol, B)
    IN  [pourOffMl |-> roundOzToMl(pourOffOz),
         pourOffOz |-> pourOffOz,
         ingredientsToAdd |-> added,
         waterToAddMl |-> roundOzToMl(waterOz),
         waterToAddOz |-> waterOz,
         finalAbv |-> IF B = 0 THEN NaN ELSE MathRound(alcohol, B),
         totalVolumeMl |-> B,
         totalVolumeOz |-> mlToOz(B),
         servings |-> B \div SERVING_SIZE_ML,
         freezeStatus |-> fs.status,
         freezeMessage |-> fs.message,
         baseSpiritName |-> entry.baseSpirit,
         baseSpiritInBottleMl |-> baseSpiritMl,
         baseSpiritInBottleOz |-> baseSpiritOz]

\* the value calculateMilkStreetBatch(recipeId, bottleSizeMl) returns, or the
\* exception it throws: `!recipe` is false for an inherited member, whose addBack is
\* undefined, so recipe.addBack.map (line 501) throws
calculateMilkStreetBatch(id, B) ==
    LET entry == lookupBatch(id)
    IN  IF entry = Undefined THEN Null
        ELSE IF entry = InheritedMember THEN TypeError
        ELSE milkStreetBatchOf(entry, B)

----------------------------------------------------------------------------
(* ABV SUGGESTIONS *)
(* A string is modelled as the sequence of its characters. *)

\* ABV_DEFAULTS: the entries of the object literal in declaration order, which is the
\* order Object.entries lists them in; a key is the sequence of its characters, a
\* value is in percent
ABV_DEFAULTS ==
    << [key |-> <<"v", "o", "d", "k", "a">>, value |-> 40],
       [key |-> <<"g", "i", "n">>, value |-> 40],
       [key |-> <<"b", "o", "u", "r", "b", "o", "n">>, value |-> 45],
       [key |-> <<"r", "y", "e">>, value |-> 45],
       [key |-> <<"r", "y", "e", " ", "w", "h", "i", "s", "k", "e", "y">>, value |-> 45],
       [key |-> <<"w", "h", "i", "s", "k", "e", "y">>, value |-> 40],
       [key |-> <<"s", "c", "o", "t", "c", "h">>, value |-> 43],
       [key |-> <<"r", "u", "m">>, value |-> 40],
       [key |-> <<"w", "h", "i", "t", "e", " ", "r", "u", "m">>, value |-> 40],
       [key |-> <<"d", "a", "r", "k", " ", "r", "u", "m">>, value |-> 40],
       [key |-> <<"t", "e", "q", "u", "i", "l", "a">>, value |-> 40],
       [key |-> <<"m", "e", "z", "c", "a", "l">>, value |-> 43],
       [key |-> <<"b", "r", "a", "n", "d", "y">>, value |-> 40],
       [key |-> <<"c", "o", "g", "n", "a", "c">>, value |-> 40],
       [key |-> <<"c", "o", "i", "n", "t", "r", "e", "a", "u">>, value |-> 40],
       [key |-> <<"t", "r", "i", "p", "l", "e", " ", "s", "e", "c">>, value |-> 30],
       [key |-> <<"g", "r", "a", "n", "d", " ", "m", "a", "r", "n", "i", "e", "r">>, value |-> 40],
       [key |-> <<"c", "a", "m", "p", "a", "r", "i">>, value |-> 25],
       [key |-> <<"a", "p", "e", "r", "o", "l">>, value |-> 11],
       [key |-> <<"k", "a", "h", "l", "u", "a">>, value |-> 20],
       [key |-> <<"a", "m", "a", "r", "e", "t", "t", "o">>, value |-> 28],
       [key |-> <<"s", "t", " ", "g", "e", "r", "m", "a", "i", "n">>, value |-> 20],
       [key |-> <<"m", "a", "r", "a", "s", "c", "h", "i", "n", "o">>, value |-> 32],
       [key |-> <<"a", "m", "a", "r", "o">>, value |-> 30],
       [key |-> <<"a", "m", "a", "r", "o", " ", "n", "o", "n", "i", "n", "o">>, value |-> 35],
       [key |-> <<"f", "e", "r", "n", "e", "t">>, value |-> 39],
       [key |-> <<"s", "w", "e", "e", "t", " ", "v", "e", "r", "m", "o", "u", "t", "h">>, value |-> 16],
       [key |-> <<"d", "r", "y", " ", "v", "e", "r", "m", "o", "u", "t", "h">>, value |-> 18],
       [key |-> <<"a", "n", "g", "o", "s", "t", "u", "r", "a">>, value |-> 45],
       [key |-> <<"a", "n", "g", "o", "s", "t", "u", "r", "a", " ", "b", "i", "t", "t", "e", "r", "s">>, value |-> 45],
       [key |-> <<"b", "i", "t", "t", "e", "r", "s">>, value |-> 45],
       [key |-> <<"l", "i", "m", "e", " ", "j", "u", "i", "c", "e">>, value |-> 0],
       [key |-> <<"l", "e", "m", "o", "n", " ", "j", "u", "i", "c", "e">>, value |-> 0],
       [key |-> <<"o", "r", "a", "n", "g", "e", " ", "j", "u", "i", "c", "e">>, value |-> 0],
       [key |-> <<"c", "r", "a", "n", "b", "e", "r", "r", "y", " ", "j", "u", "i", "c", "e">>, value |-> 0],
       [key |-> <<"s", "i", "m", "p", "l", "e", " ", "s", "y", "r", "u", "p">>, value |-> 0],
       [key |-> <<"h", "o", "n", "e", "y", " ", "s", "y", "r", "u", "p">>, value |-> 0],
       [key |-> <<"g", "i", "n", "g", "e", "r", " ", "s", "y", "r", "u", "p">>, value |-> 0],
       [key |-> <<"o", "l", "i", "v", "e", " ", "b", "r", "i", "n", "e">>, value |-> 0],
       [key |-> <<"w", "a", "t", "e", "r">>, value |-> 0],
       [key |-> <<"c", "o", "l", "d", " ", "b", "r", "e", "w">>, value |-> 0],
       [key |-> <<"c", "o", "l", "d", " ", "b", "r", "e", "w", " ", "c", "o", "n", "c", "e", "n", "t", "r", "a", "t", "e">>, value |-> 0],
       [key |-> <<"e", "s", "p", "r", "e", "s", "s", "o">>, value |-> 0] >>

\* the names every object literal inherits from Object.prototype that are left
\* unchanged by toLowerCase, as sequences of characters
ObjectPrototypeLowerCaseNames ==
    { <<"c", "o", "n", "s", "t", "r", "u", "c", "t", "o", "r">>,
      <<"_", "_", "p", "r", "o", "t", "o", "_", "_">> }

UpperCaseLetters ==
    <<"A", "B", "C", "D", "E", "F", "G", "H", "I", "J", "K", "L", "M",
      "N", "O", "P", "Q", "R", "S", "T", "U", "V", "W", "X", "Y", "Z">>
LowerCaseLetters ==
    <<"a", "b", "c", "d", "e", "f", "g", "h", "i", "j", "k", "l", "m",
      "n", "o", "p", "q", "r", "s", "t", "u", "v", "w", "x", "y", "z">>

\* String.prototype.toLowerCase, on names written in ASCII
toLowerCase(s) ==
    [i \in DOMAIN s |->
        IF \E k \in DOMAIN UpperCaseLetters : UpperCaseLetters[k] = s[i]
        THEN LowerCaseLetters[CHOOSE k \in DOMAIN UpperCaseLetters : UpperCaseLetters[k] = s[i]]
        ELSE s[i]]

\* the white space String.prototype.trim removes, as far as names contain it
WhiteSpace == {" ", "\t", "\n"}

RECURSIVE trimStart(_)
trimStart(s) ==
    IF s # <<>> /\ Head(s) \in WhiteSpace THEN trimStart(Tail(s)) ELSE s

RECURSIVE trimEnd(_)
trimEnd(s) ==
    IF s # <<>> /\ s[Len(s)] \in WhiteSpace THEN trimEnd(SubSeq(s, 1, Len(s) - 1)) ELSE s

\* String.prototype.trim
trim(s) == trimEnd(trimStart(s))

\* s.includes(t): t occurs in s as a contiguous run; the empty string occurs in
\* every string
includes(s, t) ==
    \E i \in 0..(Len(s) - Len(t)) : SubSeq(s, i + 1, i + Len(t)) = t

\* line 723: ABV_DEFAULTS[normalized], a property read on an object literal
lookupAbv(normalized) ==
    IF \E i \in DOMAIN ABV_DEFAULTS : ABV_DEFAULTS[i].key = normalized
    THEN [value |-> ABV_DEFAULTS[CHOOSE i \in DOMAIN ABV_DEFAULTS :
                                     ABV_DEFAULTS[i].key = normalized].value]
    ELSE IF normalized \in ObjectPrototypeLowerCaseNames THEN InheritedMember
    ELSE Undefined

\* lines 728-732: the value of the first entry whose key is part of the name or has
\* the name as a part; null when the loop ends without one
partialMatch(normalized) ==
    LET hits == {i \in DOMAIN ABV_DEFAULTS :
                    \/ includes(normalized, ABV_DEFAULTS[i].key)
                    \/ includes(ABV_DEFAULTS[i].key, normalized)}
    IN  IF hits = {} THEN Null
        ELSE [value |-> ABV_DEFAULTS[CHOOSE i \in hits : \A j \in hits : i <= j].value]

\* suggestABV(name): a number [value |-> percent], null, or for a name found on the
\* prototype chain the inherited member itself
suggestABV(name) ==
    LET normalized == trim(toLowerCase(name))
    IN  IF lookupAbv(normalized) # Undefined THEN lookupAbv(normalized)
        ELSE partialMatch(normalized)

----------------------------------------------------------------------------

(* Inputs *)

\* the longest ingredient list a caller passes
MaxIngredients == 3

\* ingredient lines a caller enters: name, amount (quarters), unit, abv (tenths)
Lines ==
    { [name |-> "Gin",            amount |-> 4, unit |-> "oz",   abv |-> 400],
      [name |-> "Campari",        amount |-> 4, unit |-> "oz",   abv |-> 250],
      [name |-> "Sweet Vermouth", amount |-> 4, unit |-> "oz",   abv |-> 160],
      [name |-> "Cointreau",      amount |-> 2, unit |-> "oz",   abv |-> 400],
      [name |-> "Lime Juice",     amount |-> 2, unit |-> "oz",   abv |-> 0],
      [name |-> "Bitters",        amount |-> 0, unit |-> "dash", abv |-> 450] }

Ingredients ==
    { [name |-> l.name, amount |-> l.amount, unit |-> l.unit, abv |-> l.abv,
       isBaseSpirit |-> f] : l \in Lines, f \in BOOLEAN }

Recipes == UNION { [1..n -> Ingredients] : n \in 0..MaxIngredients }

BottleSizes == {375, STANDARD_BOTTLE_ML}
Dilutions == {20, 25}

----------------------------------------------------------------------------
(* The caller *)

Init ==
    /\ recipe \in Recipes
    /\ given = recipe
    /\ recipeId = ""
    /\ amountIn = 0
    /\ unitIn = "ml"
    /\ ozIn = 0
    /\ nameIn = <<>>
    /\ bottleSizeMl = STANDARD_BOTTLE_ML
    /\ dilutionPercent = 20
    /\ result = NoResult
    /\ abv = 0
    /\ freeze = NoResult

\* result = calculateBatchFromBottle(recipe, B, d)
Calculate ==
    \E B \in BottleSizes, d \in Dilutions :
        /\ given' = recipe
        /\ bottleSizeMl' = B
        /\ dilutionPercent' = d
        /\ result' = calculateBatchFromBottle(recipe, B, d)
        /\ recipe' = recipeAfterCall(recipe)
        /\ UNCHANGED <<recipeId, abv, freeze, utilityArgs>>

Next == Calculate

Spec == Init /\ [][Next]_vars

----------------------------------------------------------------------------
(* A caller of getFreezeStatus alone *)

\* the ABV values classified, in tenths of a percent: 0.0 .. 100.0
AbvInputs == 0..1000

InitFreeze ==
    /\ recipe = <<>>
    /\ given = <<>>
    /\ recipeId = ""
    /\ amountIn = 0
    /\ unitIn = "ml"
    /\ ozIn = 0
    /\ nameIn = <<>>
    /\ bottleSizeMl = STANDARD_BOTTLE_ML
    /\ dilutionPercent = 20
    /\ result = NoResult
    /\ abv \in AbvInputs
    /\ freeze = NoResult

\* freeze = getFreezeStatus(abv)
Classify ==
    /\ freeze' = getFreezeStatus(abv, 1)
    /\ UNCHANGED <<recipe, given, recipeId, bottleSizeMl, dilutionPercent, result, abv, utilityArgs>>

NextFreeze == Classify

SpecFreeze == InitFreeze /\ [][NextFreeze]_vars

----------------------------------------------------------------------------
(* A caller of calculateMilkStreetBatch *)

\* the recipe ids a caller passes: the keys of the table, and strings that are not keys
RecipeIds ==
    DOMAIN MILK_STREET_BATCHES \cup
        {"", "mojito", "Margarita", "old fashioned", "constructor", "toString"}

\* bottle sizes in ml, from a miniature to a handle
MilkStreetBottleSizes == {50, 100, 200, 375, 500, STANDARD_BOTTLE_ML, 1000, 1500, 1750}

InitMilkStreet ==
    /\ recipe = <<>>
    /\ given = <<>>
    /\ recipeId \in RecipeIds
    /\ amountIn = 0
    /\ unitIn = "ml"
    /\ ozIn = 0
    /\ nameIn = <<>>
    /\ bottleSizeMl = STANDARD_BOTTLE_ML
    /\ dilutionPercent = 20
    /\ result = NoResult
    /\ abv = 0
    /\ freeze = NoResult

\* result = calculateMilkStreetBatch(recipeId, B)
CalculateMilkStreet ==
    \E B \in MilkStreetBottleSizes :
        /\ bottleSizeMl' = B
        /\ result' = calculateMilkStreetBatch(recipeId, B)
        /\ UNCHANGED <<recipe, given, recipeId, dilutionPercent, abv, freeze, utilityArgs>>

NextMilkStreet == CalculateMilkStreet

SpecMilkStreet == InitMilkStreet /\ [][NextMilkStreet]_vars

----------------------------------------------------------------------------

(* A caller who varies the dilution and the bottle size of one recipe *)

\* the longest ingredient list of such a caller
MaxSweepIngredients == 2

\* the lines of a long drink: name, amount (quarters), unit, abv (tenths)
SweepLines ==
    { [name |-> "Gin",            amount |-> 2, unit |-> "oz", abv |-> 400],
      [name |-> "Tonic Water",    amount |-> 8, unit |-> "oz", abv |-> 0],
      [name |-> "Sweet Vermouth", amount |-> 4, unit |-> "oz", abv |-> 160],
      [name |-> "Lime Juice",     amount |-> 2, unit |-> "oz", abv |-> 0] }

SweepIngredients ==
    { [name |-> l.name, amount |-> l.amount, unit |-> l.unit, abv |-> l.abv,
       isBaseSpirit |-> f] : l \in SweepLines, f \in BOOLEAN }

SweepRecipes == UNION { [1..n -> SweepIngredients] : n \in 1..MaxSweepIngredients }

\* bottle sizes one ml apart and far apart; dilutions one percent apart and far apart,
\* from none to all water
SweepBottleSizes == {375, 376, STANDARD_BOTTLE_ML, 1000}
SweepDilutions == {0, 20, 25, 26, 50, 99, 100}

InitSweep ==
    /\ recipe \in SweepRecipes
    /\ given = recipe
    /\ recipeId = ""
    /\ amountIn = 0
    /\ unitIn = "ml"
    /\ ozIn = 0
    /\ nameIn = <<>>
    /\ bottleSizeMl = STANDARD_BOTTLE_ML
    /\ dilutionPercent = 20
    /\ result = NoResult
    /\ abv = 0
    /\ freeze = NoResult

\* result = calculateBatchFromBottle(recipe, B, d)
CalculateSweep ==
    \E B \in SweepBottleSizes, d \in SweepDilutions :
        /\ given' = recipe
        /\ bottleSizeMl' = B
        /\ dilutionPercent' = d
        /\ result' = calculateBatchFromBottle(recipe, B, d)
        /\ recipe' = recipeAfterCall(recipe)
        /\ UNCHANGED <<recipeId, abv, freeze, utilityArgs>>

NextSweep == CalculateSweep

SpecSweep == InitSweep /\ [][NextSweep]_vars

----------------------------------------------------------------------------

(* A caller of convertToMl *)

\* the units a caller passes: the seven of the Unit type, and strings outside it
\* ("undefined" is the key an absent unit is read under)
Units ==
    DOMAIN UNIT_TO_ML \cup {"", "undefined", "cup", "OZ", "constructor", "toString", "__proto__"}

\* the amounts converted, in quarters: 0 to 10 units
ConvertAmounts == 0..40

InitConvert ==
    /\ recipe = <<>>
    /\ given = <<>>
    /\ recipeId = ""
    /\ amountIn \in ConvertAmounts
    /\ unitIn \in Units
    /\ ozIn = 0
    /\ nameIn = <<>>
    /\ bottleSizeMl = STANDARD_BOTTLE_ML
    /\ dilutionPercent = 20
    /\ result = NoResult
    /\ abv = 0
    /\ freeze = NoResult

\* convertToMl(amountIn, unitIn): the factor read for the unit and the product returned
Convert ==
    /\ result' = [factor |-> unitFactor(unitIn), ml |-> convertToMl(amountIn, unitIn)]
    /\ UNCHANGED <<recipe, given, recipeId, bottleSizeMl, dilutionPercent, abv, freeze,
                   utilityArgs>>

NextConvert == Convert

SpecConvert == InitConvert /\ [][NextConvert]_vars

----------------------------------------------------------------------------

(* A caller converting ounces to ml and back *)

\* the ounces converted, in thousandths: every thousandth up to 17.5 oz, and every
\* hundredth from there to 100 oz
OzInputs == 0..17500 \cup {10 * h : h \in 1751..10000}

InitRoundTrip ==
    /\ recipe = <<>>
    /\ given = <<>>
    /\ recipeId = ""
    /\ amountIn = 0
    /\ unitIn = "ml"
    /\ ozIn \in OzInputs
    /\ nameIn = <<>>
    /\ bottleSizeMl = STANDARD_BOTTLE_ML
    /\ dilutionPercent = 20
    /\ result = NoResult
    /\ abv = 0
    /\ freeze = NoResult

\* ozToMl(ozIn / 1000) with the fraction in lowest decimal terms
ozInToMl ==
    IF ozIn % 10 = 0 THEN ozToMl(ozIn \div 10, 100) ELSE ozToMl(ozIn, 1000)

\* mlToOz(ozToMl(oz)): ml in whole ml, oz in hundredths
RoundTrip ==
    /\ result' = [ml |-> ozInToMl, oz |-> mlToOz(ozInToMl)]
    /\ UNCHANGED <<recipe, given, recipeId, bottleSizeMl, dilutionPercent, abv, freeze,
                   utilityArgs>>

NextRoundTrip == RoundTrip

SpecRoundTrip == InitRoundTrip /\ [][NextRoundTrip]_vars

----------------------------------------------------------------------------

(* A caller of suggestABV *)

\* the names a caller passes: every key as written, keys in other letter case or
\* with surrounding whitespace, names that contain a key or are contained in one, names
\* that match nothing, names of Object.prototype members, empty and blank names
Names ==
    {ABV_DEFAULTS[i].key : i \in DOMAIN ABV_DEFAULTS} \cup
    { <<"G", "i", "n">>,
      <<" ", " ", "V", "o", "d", "k", "a", " ">>,
      <<"B", "O", "U", "R", "B", "O", "N">>,
      <<"g", "i", "n", "g", "e", "r", " ", "b", "e", "e", "r">>,
      <<"w", "h", "i", "s", "k">>,
      <<"t", "o", "n", "i", "c", " ", "w", "a", "t", "e", "r">>,
      <<"A", "m", "a", "r", "o", " ", "N", "o", "n", "i", "n", "o">>,
      <<"a", "m", "a", "r", "o", " ", "m", "o", "n", "t", "e", "n", "e", "g", "r", "o">>,
      <<"c", "o", "n", "s", "t", "r", "u", "c", "t", "o", "r">>,
      <<"_", "_", "p", "r", "o", "t", "o", "_", "_">>,
      <<"t", "o", "S", "t", "r", "i", "n", "g">>,
      <<"C", "o", "n", "s", "t", "r", "u", "c", "t", "o", "r", " ">>,
      <<" ", "c", "o", "n", "s", "t", "r", "u", "c", "t", "o", "r">>,
      <<>>,
      <<" ">>,
      <<" ", " ">>,
      <<"\t", " ">>,
      <<"x", "y", "z">>,
      <<"s", "o", "d", "a">>,
      <<"s", "w", "e", "e", "t", " ", "v", "e", "r", "m", "o", "u", "t", "h", " ", "r", "o", "s", "s", "o">>,
      <<"o", "l", "d", " ", "t", "o", "m", " ", "g", "i", "n">>,
      <<"7", "u", "p">>,
      <<"w">>,
      <<"R", "y", "e", " ", "W", "h", "i", "s", "k", "e", "y">>,
      <<"a", "n", "g", "o", "s", "t", "u", "r", "a", " ", "o", "r", "a", "n", "g", "e", " ", "b", "i", "t", "t", "e", "r", "s">>,
      <<"e", "g", "g", " ", "w", "h", "i", "t", "e">>,
      <<"x">> }

InitSuggest ==
    /\ recipe = <<>>
    /\ given = <<>>
    /\ recipeId = ""
    /\ amountIn = 0
    /\ unitIn = "ml"
    /\ ozIn = 0
    /\ nameIn \in Names
    /\ bottleSizeMl = STANDARD_BOTTLE_ML
    /\ dilutionPercent = 20
    /\ result = NoResult
    /\ abv = 0
    /\ freeze = NoResult

\* result = suggestABV(nameIn)
Suggest ==
    /\ result' = suggestABV(nameIn)
    /\ UNCHANGED <<recipe, given, recipeId, bottleSizeMl, dilutionPercent, abv, freeze,
                   utilityArgs>>

NextSuggest == Suggest

SpecSuggest == InitSuggest /\ [][NextSuggest]_vars

----------------------------------------------------------------------------

(* A caller who edits ABVs between calls on the same list *)

\* the longest ingredient list of such a caller
MaxEditIngredients == 2

\* the lines the caller enters: name, amount (quarters), unit, abv (tenths)
EditLines ==
    { [name |-> "Gin",            amount |-> 4, unit |-> "oz", abv |-> 400],
      [name |-> "Campari",        amount |-> 4, unit |-> "oz", abv |-> 250],
      [name |-> "Sweet Vermouth", amount |-> 4, unit |-> "oz", abv |-> 160] }

\* the ABVs the caller changes a line to, in tenths
EditAbvs == {0, 160, 250, 400}

\* lists of distinct lines, none flagged as base spirit by the caller
EditRecipes ==
    { r \in UNION { [1..n -> { [name |-> l.name, amount |-> l.amount, unit |-> l.unit,
                                abv |-> l.abv, isBaseSpirit |-> FALSE] : l \in EditLines }]
                      : n \in 1..MaxEditIngredients } :
        \A i, j \in DOMAIN r : i # j => r[i].name # r[j].name }

InitEdit ==
    /\ recipe \in EditRecipes
    /\ given = recipe
    /\ recipeId = ""
    /\ amountIn = 0
    /\ unitIn = "ml"
    /\ ozIn = 0
    /\ nameIn = <<>>
    /\ bottleSizeMl = STANDARD_BOTTLE_ML
    /\ dilutionPercent = 20
    /\ result = NoResult
    /\ abv = 0
    /\ freeze = NoResult

\* result = calculateBatchFromBottle(recipe, 750, 20) on the list as it is now
CalculateAgain ==
    /\ given' = recipe
    /\ result' = calculateBatchFromBottle(recipe, bottleSizeMl, dilutionPercent)
    /\ recipe' = recipeAfterCall(recipe)
    /\ UNCHANGED <<recipeId, bottleSizeMl, dilutionPercent, abv, freeze, utilityArgs>>

\* the caller assigns recipe[i].abv = a; it never assigns isBaseSpirit
ChangeAbv ==
    \E i \in DOMAIN recipe, a \in EditAbvs :
        /\ recipe[i].abv # a
        /\ recipe' = [recipe EXCEPT ![i].abv = a]
        /\ UNCHANGED <<given, result, recipeId, bottleSizeMl, dilutionPercent, abv, freeze,
                       utilityArgs>>

NextEdit == CalculateAgain \/ ChangeAbv

SpecEdit == InitEdit /\ [][NextEdit]_vars

----------------------------------------------------------------------------

(* A caller of calculateMilkStreetBatch with bottles of any size *)

\* bottle sizes in ml: every size below 20 ml, the empty bottle included, and the
\* sizes from a miniature to a handle
AnyBottleSizes == 0..19 \cup MilkStreetBottleSizes

\* result = calculateMilkStreetBatch(recipeId, B)
CalculateAnySize ==
    \E B \in AnyBottleSizes :
        /\ bottleSizeMl' = B
        /\ result' = calculateMilkStreetBatch(recipeId, B)
        /\ UNCHANGED <<recipe, given, recipeId, dilutionPercent, abv, freeze, utilityArgs>>

NextAnySize == CalculateAnySize

SpecAnySize == InitMilkStreet /\ [][NextAnySize]_vars

----------------------------------------------------------------------------

(* Properties of the freeform engine *)

\* a call has returned
Returned == result # NoResult

\* the last call returned a computed batch (not the empty result, not an exception)
Computed ==
    /\ Returned
    /\ result # TypeError
    /\ result.totalVolumeMl > 0

\* s = Math.round(num / den), den > 0
IsRound(s, num, den) ==
    /\ 2 * s * den - den <= 2 * num
    /\ 2 * num < 2 * s * den + den

\* the single-serving volume of the list passed to the last call, in 1/8000 ml
GivenTotalMl == sumTo([i \in 1..Len(given) |-> convertToMl(given[i].amount, given[i].unit)], Len(given))

\* the documented empty result
DocumentedEmpty ==
    [pourOffMl |-> 0, pourOffOz |-> 0, ingredientsToAdd |-> <<>>,
     waterToAddMl |-> 0, waterToAddOz |-> 0, finalAbv |-> 0,
     totalVolumeMl |-> 0, totalVolumeOz |-> 0, servings |-> 0,
     freezeStatus |-> "freeze", freezeMessage |-> <<"Add ingredients to calculate">>,
     baseSpiritName |-> "", baseSpiritInBottleMl |-> 0, baseSpiritInBottleOz |-> 0]

\* C1: calculateBatchFromBottle never mutates caller-owned data: after any call every
\* ingredient of the input list has the name, amount, unit, abv and isBaseSpirit flag
\* it had when the call was entered.
C1_InputUnchanged == recipe = given

\* C2: whenever the ingredient list is empty or the converted volumes of its
\* ingredients sum to 0 (every amount is 0), the call returns the empty result, for
\* every bottle size and dilution, and does not throw.
C2_EmptyOnNoVolume ==
    (Returned /\ \A i \in 1..Len(given) : given[i].amount = 0)
        => result = DocumentedEmpty

\* C2 witness: a non-empty list with a flagged ingredient and no volume was calculated
C2_Witness ==
    /\ Returned
    /\ Len(given) > 0
    /\ \E i \in 1..Len(given) : given[i].isBaseSpirit
    /\ \A i \in 1..Len(given) : given[i].amount = 0
    /\ bottleSizeMl = 375
    /\ result.totalVolumeMl = 0

\* C3: for every non-empty list in which no ingredient has ABV > 0, whatever its
\* isBaseSpirit flags, the call returns the all-zero empty result.
C3_EmptyOnNoAlcohol ==
    (Returned /\ Len(given) > 0 /\ \A i \in 1..Len(given) : given[i].abv = 0)
        => result = DocumentedEmpty

\* ingredient b of the given list is the one the claim names as base spirit
IsNamedBase(b) ==
    IF \E i \in 1..Len(given) : given[i].isBaseSpirit
    THEN given[b].isBaseSpirit
    ELSE /\ given[b].abv > 0
         /\ \A j \in 1..Len(given) : given[j].abv <= given[b].abv

\* C4: the base spirit of a computed batch is an ingredient flagged isBaseSpirit or,
\* when none is flagged, one with the highest ABV among those with ABV > 0; the
\* result's baseSpiritName and baseSpiritInBottleMl are its name and scaled volume.
C4_BaseSpiritSelection ==
    Computed =>
        \E b \in 1..Len(given) :
            /\ IsNamedBase(b)
            /\ result.baseSpiritName = given[b].name
            /\ IsRound(result.baseSpiritInBottleMl,
                       convertToMl(given[b].amount, given[b].unit)
                           * (bottleSizeMl - result.waterToAddMl),
                       GivenTotalMl)

\* C4 witness: nothing was flagged and the base spirit chosen is not the first ingredient
C4_Witness ==
    /\ Computed
    /\ \A i \in 1..Len(given) : ~given[i].isBaseSpirit
    /\ Len(given) = 3
    /\ given[1].name = "Sweet Vermouth"
    /\ given[2].name = "Cointreau"
    /\ given[3].name = "Gin"
    /\ result.baseSpiritName = "Cointreau"

\* C5: in every computed batch waterToAddMl = round(B * d / 100),
\* baseSpiritInBottleMl = round(baseRecipeMl * (B - waterToAddMl) / recipeTotalMl) and
\* pourOffMl = B - baseSpiritInBottleMl; a 1:1:1 recipe at B = 750, d = 20 gives
\* water 150, base 200, pour-off 550.
C5_PourOffArithmetic ==
    Computed =>
        LET b == findBaseSpirit(recipe)
        IN  /\ IsRound(result.waterToAddMl, bottleSizeMl * dilutionPercent, 100)
            /\ IsRound(result.baseSpiritInBottleMl,
                       convertToMl(given[b].amount, given[b].unit)
                           * (bottleSizeMl - result.waterToAddMl),
                       GivenTotalMl)
            /\ result.pourOffMl = bottleSizeMl - result.baseSpiritInBottleMl
            /\ (/\ Len(given) = 3
                /\ \A i \in 1..3 : given[i].amount = 4 /\ given[i].unit = "oz"
                /\ bottleSizeMl = 750
                /\ dilutionPercent = 20)
               => /\ result.waterToAddMl = 150
                  /\ result.baseSpiritInBottleMl = 200
                  /\ result.pourOffMl = 550

\* C5 witness: the 1:1:1 recipe of the example at 750 ml and 20% dilution
C5_Witness ==
    /\ Computed
    /\ Len(given) = 3
    /\ given[1].name = "Gin" /\ given[1].isBaseSpirit
    /\ given[2].name = "Campari"
    /\ given[3].name = "Sweet Vermouth"
    /\ bottleSizeMl = 750
    /\ dilutionPercent = 20
    /\ result.pourOffMl = 550
\* C6: in every computed batch ingredientsToAdd holds exactly one entry for each input
\* ingredient other than the base spirit (n - 1 entries for n ingredients), in input
\* order, each with amountMl = round(recipeMl * scaleFactor), amountOz = mlToOz(amountMl)
\* and the ingredient's own abv.
C6_EveryOtherIngredientAdded ==
    Computed =>
        LET b   == findBaseSpirit(recipe)
            add == result.ingredientsToAdd
        IN  /\ Len(add) = Len(given) - 1
            /\ \A i \in (1..Len(given)) \ {b} :
                    LET k == IF i < b THEN i ELSE i - 1
                    IN  /\ add[k].name = given[i].name
                        /\ add[k].abv = given[i].abv
                        /\ IsRound(add[k].amountMl,
                                   convertToMl(given[i].amount, given[i].unit)
                                       * (bottleSizeMl - result.waterToAddMl),
                                   GivenTotalMl)
                        /\ IsRound(add[k].amountOz,
                                   add[k].amountMl * 100 * 2000, 59147)

\* C7: in every computed batch finalAbv is the sum over all scaled ingredients of
\* scaledMl * abv / 100, divided by the bottle volume, times 100, rounded to 1 decimal.
C7_FinalAbvOverBottle ==
    Computed =>
        LET scaled == scaledMl(recipe, bottleSizeMl, dilutionPercent)
            alcohol == sumTo([i \in 1..Len(given) |-> scaled[i] * given[i].abv], Len(given))
        IN  IsRound(result.finalAbv, alcohol, bottleSizeMl)

\* C7 witness: a diluted batch of several ingredients with alcohol in it
C7_Witness ==
    /\ Computed
    /\ Len(given) = 3
    /\ dilutionPercent = 25
    /\ result.waterToAddMl = 188
    /\ given[1].name = "Gin"
    /\ given[2].name = "Campari"
    /\ given[3].name = "Sweet Vermouth"
    /\ bottleSizeMl = 750
    /\ result.finalAbv = 202

\* C8: getFreezeStatus partitions ABV into three bands: 'freeze' iff abv < 15,
\* 'slushy' iff 15 <= abv < 22, 'safe' iff abv >= 22; 14.9 -> freeze, 15.0 -> slushy,
\* 21.9 -> slushy, 22.0 -> safe.
C8_FreezeBands ==
    freeze # NoResult =>
        /\ freeze.status \in {"freeze", "slushy", "safe"}
        /\ freeze.status = "freeze" <=> abv < 150
        /\ freeze.status = "slushy" <=> (150 <= abv /\ abv < 220)
        /\ freeze.status = "safe" <=> abv >= 220
        /\ abv = 149 => freeze.status = "freeze"
        /\ abv = 150 => freeze.status = "slushy"
        /\ abv = 219 => freeze.status = "slushy"
        /\ abv = 220 => freeze.status = "safe"

\* C8 witness: 15.0 has been classified
C8_Witness ==
    /\ freeze # NoResult
    /\ abv = 150
    /\ freeze.status = "slushy"

\* the band of an ABV given in tenths of a percent
BandOf(a) == IF a < 150 THEN "freeze" ELSE IF a < 220 THEN "slushy" ELSE "safe"

\* C9: in every computed batch freezeStatus is the band of the finalAbv reported in
\* that same result (the ABV rounded to 1 decimal).
C9_StatusOfReportedAbv ==
    Computed => result.freezeStatus = BandOf(result.finalAbv)

\* C10: a second call with the same ingredient list, bottle size and dilution returns
\* a result equal to the first, also when the first call auto-selected the base spirit.
C10_Idempotent ==
    Returned => calculateBatchFromBottle(recipe, bottleSizeMl, dilutionPercent) = result

\* C10 witness: the call auto-selected the base spirit and computed a batch
C10_Witness ==
    /\ Computed
    /\ \A i \in 1..Len(given) : ~given[i].isBaseSpirit
    /\ \E i \in 1..Len(recipe) : recipe[i].isBaseSpirit
    /\ Len(given) >= 2

\* C11: calls that share one ingredient list do not influence each other: after any
\* call, a further call on the shared list (as the earlier call left it), at any bottle
\* size and dilution, returns what it returns on a private copy of the list as the
\* caller built it.
C11_SharedListCallsIndependent ==
    (Returned /\ recipe # given) =>
        \A B \in BottleSizes, d \in Dilutions :
            calculateBatchFromBottle(recipe, B, d) = calculateBatchFromBottle(given, B, d)

\* C11 witness: a call at 375 ml and 25% auto-selected the base spirit of a
\* three-ingredient list and wrote its flag on the shared list
C11_Witness ==
    /\ Computed
    /\ bottleSizeMl = 375
    /\ dilutionPercent = 25
    /\ Len(given) = 3
    /\ \A i \in 1..Len(given) : ~given[i].isBaseSpirit
    /\ recipe # given
    /\ given[1].abv < given[2].abv

----------------------------------------------------------------------------
(* Properties of the reference engine *)

\* the last call was made with one of the thirteen keys of the table
KnownRecipe == recipeId \in DOMAIN MILK_STREET_BATCHES

\* the last call returned a BatchResult
ReturnedBatch == Returned /\ result # Null /\ result # TypeError

\* C12: calculateMilkStreetBatch returns null, without throwing, for every recipeId
\* that is not a key of the table, at any bottle size, and a non-null BatchResult for
\* each of the thirteen keys.
C12_NullExactlyForUnknownId ==
    Returned =>
        /\ ~KnownRecipe => result = Null
        /\ KnownRecipe => ReturnedBatch

\* the table entry of the last call
Entry == MILK_STREET_BATCHES[recipeId]

\* oz = roundToQuarter(ref * B / 750), oz and ref in hundredths of an ounce
IsScaledQuarter(oz, ref, B) ==
    /\ oz % 25 = 0
    /\ IsRound(oz \div 25, ref * B, 25 * STANDARD_BOTTLE_ML)

\* C13: for every reference recipe and bottle size B, pourOffOz, each add-back amountOz
\* and waterToAddOz equal roundToQuarter(referenceOz * B / 750); margarita at 375 ml
\* gives pour-off 5, lime 2.5, orange liqueur 2, agave 0.75, water 0.
C13_LinearScaling ==
    (ReturnedBatch /\ KnownRecipe) =>
        /\ IsScaledQuarter(result.pourOffOz, Entry.pourOffOz, bottleSizeMl)
        /\ Len(result.ingredientsToAdd) = Len(Entry.addBack)
        /\ \A i \in 1..Len(Entry.addBack) :
              /\ result.ingredientsToAdd[i].name = Entry.addBack[i].name
              /\ IsScaledQuarter(result.ingredientsToAdd[i].amountOz,
                                 Entry.addBack[i].oz, bottleSizeMl)
        /\ IsScaledQuarter(result.waterToAddOz, Entry.waterOz, bottleSizeMl)
        /\ (recipeId = "margarita" /\ bottleSizeMl = 375) =>
              /\ result.pourOffOz = 500
              /\ result.ingredientsToAdd[1].amountOz = 250
              /\ result.ingredientsToAdd[2].amountOz = 200
              /\ result.ingredientsToAdd[3].amountOz = 75
              /\ result.waterToAddOz = 0

\* C13 witness: the margarita has been computed for a 375 ml bottle
C13_Witness ==
    /\ ReturnedBatch
    /\ recipeId = "margarita"
    /\ bottleSizeMl = 375
    /\ result.ingredientsToAdd[1].name = "Fresh Lime Juice"
    /\ result.ingredientsToAdd[1].amountOz = 250

\* C14: on a 750 ml bottle the reference engine reproduces the table exactly for each
\* of the thirteen recipes: pour-off, every add-back amount and water are the table's
\* values (every roundToQuarter is the identity on them).
C14_TableReproducedAt750 ==
    (ReturnedBatch /\ KnownRecipe /\ bottleSizeMl = STANDARD_BOTTLE_ML) =>
        /\ result.pourOffOz = Entry.pourOffOz
        /\ \A i \in 1..Len(Entry.addBack) :
              result.ingredientsToAdd[i].amountOz = Entry.addBack[i].oz
        /\ result.waterToAddOz = Entry.waterOz

\* C15: at 750 ml the margarita has pour-off 10 oz, lime 5, orange liqueur 4, agave
\* 1.5, water 0, a final ABV between 28 and 30.5 and status 'safe'; the negroni has
\* pour-off 16 oz, sweet vermouth 7, Campari 7, water 0 and a final ABV between 22 and 30.
C15_Fixtures750 ==
    (ReturnedBatch /\ bottleSizeMl = STANDARD_BOTTLE_ML) =>
        /\ recipeId = "margarita" =>
              /\ result.pourOffOz = 1000
              /\ [i \in 1..3 |-> <<result.ingredientsToAdd[i].name,
                                   result.ingredientsToAdd[i].amountOz>>]
                    = << <<"Fresh Lime Juice", 500>>,
                         <<"Orange Liqueur (Cointreau)", 400>>,
                         <<"Agave Syrup", 150>> >>
              /\ Len(result.ingredientsToAdd) = 3
              /\ result.waterToAddOz = 0
              /\ 280 <= result.finalAbv /\ result.finalAbv <= 305
              /\ result.freezeStatus = "safe"
        /\ recipeId = "negroni" =>
              /\ result.pourOffOz = 1600
              /\ [i \in 1..2 |-> <<result.ingredientsToAdd[i].name,
                                   result.ingredientsToAdd[i].amountOz>>]
                    = << <<"Sweet Vermouth", 700>>, <<"Campari", 700>> >>
              /\ Len(result.ingredientsToAdd) = 2
              /\ result.waterToAddOz = 0
              /\ 220 <= result.finalAbv /\ result.finalAbv <= 300

\* C15 witness: the negroni has been computed for a 750 ml bottle
C15_Witness ==
    /\ ReturnedBatch
    /\ recipeId = "negroni"
    /\ bottleSizeMl = STANDARD_BOTTLE_ML
    /\ result.pourOffOz = 1600
    /\ result.finalAbv = 259

\* the add-back ounces of a table entry, in hundredths
addBackOz(entry) == sumTo([i \in 1..Len(entry.addBack) |-> entry.addBack[i].oz], Len(entry.addBack))

\* C16: every entry of the table fills the 750 ml bottle: (bottle oz - pourOffOz) +
\* sum of add-back oz + waterOz = bottle oz, i.e. the ounces added back (add-back and
\* water) equal the ounces poured off.
C16_BottleFill ==
    (ReturnedBatch /\ KnownRecipe /\ bottleSizeMl = STANDARD_BOTTLE_ML) =>
        /\ (mlToOz(STANDARD_BOTTLE_ML) - Entry.pourOffOz) + addBackOz(Entry) + Entry.waterOz
              = mlToOz(STANDARD_BOTTLE_ML)
        /\ addBackOz(Entry) + Entry.waterOz = Entry.pourOffOz

\* what the engine returns for the recipe of the last call on the 750 ml bottle
AtStandardBottle == calculateMilkStreetBatch(recipeId, STANDARD_BOTTLE_ML)

\* C17: for every reference recipe and every bottle size, finalAbv differs by at most
\* 0.1 from the finalAbv of the same recipe at 750 ml.
C17_AbvScaleInvariant ==
    (ReturnedBatch /\ KnownRecipe) =>
        /\ result.finalAbv - AtStandardBottle.finalAbv <= 1
        /\ AtStandardBottle.finalAbv - result.finalAbv <= 1

\* the amounts of a result, in hundredths of an ounce: pour-off, add-backs, water
amountsOz(r) ==
    <<r.pourOffOz>> \o [i \in 1..Len(r.ingredientsToAdd) |-> r.ingredientsToAdd[i].amountOz]
        \o <<r.waterToAddOz>>

----------------------------------------------------------------------------
(* Monotonicity of the freeform engine *)

\* the list passed to the last call contains alcohol
ContainsAlcohol == \E i \in 1..Len(given) : given[i].abv > 0 /\ given[i].amount > 0

\* C19 as stated: for a fixed non-degenerate recipe containing alcohol and a fixed
\* bottle size, for all dilutions d1 < d2 in [0, 100] the finalAbv at d2 is strictly
\* less than the finalAbv at d1.
C19_AbvStrictlyDecreasing ==
    (Computed /\ ContainsAlcohol) =>
        \A d2 \in SweepDilutions :
            dilutionPercent < d2 =>
                calculateBatchFromBottle(given, bottleSizeMl, d2).finalAbv < result.finalAbv

\* C19 amended: for a fixed non-degenerate recipe containing alcohol and a fixed bottle
\* size, for all dilutions d1 < d2 in [0, 100] the finalAbv at d2 is at most the
\* finalAbv at d1 (the reported values are rounded and can coincide).
C19_AbvNonIncreasing ==
    (Computed /\ ContainsAlcohol) =>
        \A d2 \in SweepDilutions :
            dilutionPercent < d2 =>
                calculateBatchFromBottle(given, bottleSizeMl, d2).finalAbv <= result.finalAbv

\* C19 witness: a gin and tonic at 25%, reported 6.0% ABV on a 376 ml bottle, and 3.9% at 50%
C19_Witness ==
    /\ Computed
    /\ ContainsAlcohol
    /\ Len(given) = 2
    /\ bottleSizeMl = 376
    /\ dilutionPercent = 25
    /\ result.finalAbv = 60
    /\ calculateBatchFromBottle(given, bottleSizeMl, 50).finalAbv < 60

\* C20 as stated: for a fixed non-degenerate recipe and a fixed dilution, for all bottle
\* sizes B1 < B2 the pourOffMl at B2 is greater than the pourOffMl at B1.
C20_PourOffStrictlyIncreasing ==
    Computed =>
        \A B2 \in SweepBottleSizes :
            bottleSizeMl < B2 =>
                calculateBatchFromBottle(given, B2, dilutionPercent).pourOffMl > result.pourOffMl

\* C20 amended: for a fixed non-degenerate recipe and a fixed dilution, for all bottle
\* sizes B1 < B2 the pourOffMl at B2 is at least the pourOffMl at B1 (it is the same
\* for bottles a millilitre apart, and 0 at every size for a lone spirit undiluted).
C20_PourOffNonDecreasing ==
    Computed =>
        \A B2 \in SweepBottleSizes :
            bottleSizeMl < B2 =>
                calculateBatchFromBottle(given, B2, dilutionPercent).pourOffMl >= result.pourOffMl

\* C20 witness: a two-ingredient recipe on the 375 ml bottle at 20%, whose pour-off
\* is larger on the 750 ml bottle
C20_Witness ==
    /\ Computed
    /\ Len(given) = 2
    /\ bottleSizeMl = 375
    /\ dilutionPercent = 20
    /\ result.pourOffMl > 0
    /\ calculateBatchFromBottle(given, STANDARD_BOTTLE_ML, 20).pourOffMl > result.pourOffMl

----------------------------------------------------------------------------
(* Properties of the utility functions *)

\* the documented factor of a unit, times ML_PER_OZ_DEN: the seven enumerated units,
\* and 1 for every other unit
DocumentedFactor(u) ==
    CASE u = "ml" -> 2000
      [] u = "oz" -> 59147
      [] u = "cl" -> 20000
      [] u = "dash" -> 1800
      [] u = "barspoon" -> 10000
      [] u = "tsp" -> 10000
      [] u = "tbsp" -> 30000
      [] OTHER -> 2000

\* C21: convertToMl(amount, unit) = amount * factor[unit] with factors ml=1, oz=29.5735,
\* cl=10, dash=0.9, barspoon=5, tsp=5, tbsp=15, and amount * 1 for any unit outside the
\* enumeration (or absent), rather than failing.
C21_ConvertToMl ==
    Returned =>
        /\ result.factor = [factor |-> DocumentedFactor(unitIn)]
        /\ result.ml = amountIn * DocumentedFactor(unitIn)


\* the distance between the ounces returned by the round trip and the ounces given,
\* in thousandths of an ounce
RoundTripDeviation ==
    IF 10 * result.oz >= ozIn THEN 10 * result.oz - ozIn ELSE ozIn - 10 * result.oz

\* C22 as stated: for every x in [0, 100] oz, mlToOz(ozToMl(x)) differs from x by at
\* most 0.02 oz.
C22_RoundTripWithin2Hundredths ==
    Returned => RoundTripDeviation <= 20

\* C22: for every x in [0, 100] oz, mlToOz(ozToMl(x)) differs from x by at most
\* 0.022 oz, by at most 0.02 oz when x has no more than two decimals, and whenever
\* ozToMl(x) is 0 the ounces returned are 0 (mlToOz(0) = 0).
C22_RoundTripWithin22Thousandths ==
    Returned =>
        /\ RoundTripDeviation <= 22
        /\ (ozIn % 10 = 0 => RoundTripDeviation <= 20)
        /\ (result.ml = 0 => result.oz = 0)

\* 0.119 oz becomes 4 ml, which becomes 0.14 oz: 0.021 oz away
C22_Witness ==
    /\ ozIn = 119
    /\ Returned
    /\ result = [ml |-> 4, oz |-> 14]


\* the name as suggestABV compares it: lower case, surrounding white space removed
Normalized == trim(toLowerCase(nameIn))

\* the positions of the keys equal to the normalized name
ExactKeys == {i \in DOMAIN ABV_DEFAULTS : ABV_DEFAULTS[i].key = Normalized}

\* the positions of the keys that the normalized name contains or that contain it
PartialKeys ==
    {i \in DOMAIN ABV_DEFAULTS :
        \/ includes(Normalized, ABV_DEFAULTS[i].key)
        \/ includes(ABV_DEFAULTS[i].key, Normalized)}

\* C23: suggestABV returns the ABV of the key equal to the trimmed, lower-cased name
\* even when an earlier key is a substring of it ('amaro nonino' gives 35, not 30);
\* otherwise the ABV of the first key in declaration order that the name contains or
\* that contains the name; and null when no key matches in either direction.
C23_ExactThenFirstPartialElseNull ==
    Returned =>
        /\ \A i \in ExactKeys : result = [value |-> ABV_DEFAULTS[i].value]
        /\ (ExactKeys = {} /\ PartialKeys # {}) =>
              \E i \in PartialKeys :
                  /\ \A j \in PartialKeys : i <= j
                  /\ result = [value |-> ABV_DEFAULTS[i].value]
        /\ PartialKeys = {} => result = Null

\* C30: suggestABV returns null for an empty or whitespace-only name.
C30_NullForBlankName ==
    (Returned /\ Normalized = <<>>) => result = Null


----------------------------------------------------------------------------
(* Further properties of the two engines *)

C25_BaseIsHighestAbvAtEachCall ==
    Computed =>
        \E b \in 1..Len(given) :
            /\ given[b].abv > 0
            /\ \A j \in 1..Len(given) : given[j].abv <= given[b].abv
            /\ result.baseSpiritName = given[b].name


\* C26: in every non-empty BatchResult, of either engine, pourOffMl plus
\* baseSpiritInBottleMl equals totalVolumeMl.
C26_PourOffPlusBaseIsBottle ==
    (ReturnedBatch /\ result.totalVolumeMl > 0) =>
        result.pourOffMl + result.baseSpiritInBottleMl = result.totalVolumeMl


\* the highest ABV among the ingredients given, in tenths
HighestGivenAbv ==
    CHOOSE a \in {given[i].abv : i \in 1..Len(given)} :
        \A i \in 1..Len(given) : given[i].abv <= a

\* C27: for every computed freeform batch with dilution in [0, 100] and ABVs in
\* [0, 100], the reported finalAbv is at most the highest ABV among the ingredients
\* (and at most 100).
C27_FinalAbvAtMostHighestInput ==
    Computed =>
        /\ result.finalAbv <= HighestGivenAbv
        /\ result.finalAbv <= 1000


\* the number of ingredients flagged as base spirit when the last call returned
FlaggedCount == Cardinality({i \in 1..Len(recipe) : recipe[i].isBaseSpirit})

RECURSIVE sumAmountMl(_, _)
sumAmountMl(added, k) ==
    IF k = 0 THEN 0 ELSE sumAmountMl(added, k - 1) + added[k].amountMl

\* what the result puts into the bottle: the base spirit left in it, the ingredients
\* to add and the water
BottleContentMl ==
    result.baseSpiritInBottleMl
        + sumAmountMl(result.ingredientsToAdd, Len(result.ingredientsToAdd))
        + result.waterToAddMl

\* C28: for every computed freeform batch of n ingredients of which exactly one is the
\* base spirit, baseSpiritInBottleMl plus the amountMl of the ingredients to add plus
\* waterToAddMl differs from the bottle volume by at most n/2 ml.
C28_ContentWithinHalfMlPerIngredient ==
    (Computed /\ FlaggedCount = 1) =>
        /\ 2 * (BottleContentMl - bottleSizeMl) <= Len(given)
        /\ 2 * (bottleSizeMl - BottleContentMl) <= Len(given)

\* C28 witness: three ingredients, one of them the base spirit, and rounding has made
\* the content differ from the bottle volume
C28_Witness ==
    /\ Computed
    /\ FlaggedCount = 1
    /\ Len(given) = 3
    /\ BottleContentMl # bottleSizeMl


\* C29: in the reference engine, for every recipe and every bottle size >= 0, pourOffOz
\* is at most roundToQuarter(bottleSizeMl / 29.5735), so baseSpiritInBottleOz and
\* baseSpiritInBottleMl are never negative.
C29_PourOffWithinBottle ==
    (ReturnedBatch /\ KnownRecipe) =>
        /\ result.pourOffOz
              <= roundToQuarter(bottleSizeMl * 100 * ML_PER_OZ_DEN, ML_PER_OZ_NUM)
        /\ result.baseSpiritInBottleOz >= 0
        /\ result.baseSpiritInBottleMl >= 0

\* C29 witness: the paper plane, which pours off the most, in a 19 ml bottle: half an
\* ounce poured off from three quarters of an ounce
C29_Witness ==
    /\ ReturnedBatch
    /\ recipeId = "paper-plane"
    /\ bottleSizeMl = 19
    /\ result.pourOffOz = 50
    /\ result.baseSpiritInBottleOz = 25
    /\ result.baseSpiritInBottleMl = 7

====
